---- MODULE Spec2Model ----
(***************************************************************************)
(* A model of the rock-paper-scissor client: the JSON wire codec           *)
(* (message.rs), the length-prefixed transport over a connected UDP socket *)
(* (utils.rs) and the session run by main, my_turn and opponents_turn      *)
(* (main.rs).  Bytes are numbers 0..255, texts are sequences of bytes.     *)
(***************************************************************************)
EXTENDS Naturals, Sequences, FiniteSets, TLC

VARIABLES
    honest,          \* honest[p]: p runs this program (else a foreign sender)
    phase,           \* position of main
    err,             \* the io::Error kind or panic text that ended main
    snd,             \* the send_msg call in progress on p's socket
    rcv,             \* the recv_msg call in progress on p's socket
    ltask,           \* position of my_turn
    rtask,           \* position of opponents_turn
    my_action_option,\* result of my_turn
    oppo_action,     \* result of opponents_turn
    opponent_name,   \* the name taken from the opponent's Hello
    outcome,         \* what main printed at the end
    first_done,      \* which of the two tasks returned Ok first
    chan,            \* chan[p]: datagrams queued for p's socket, oldest first
    wire,            \* every byte p's socket accepted, in order
    sent,            \* messages whose send_msg returned Ok
    rcvd,            \* messages recv_msg returned
    dropped,         \* bytes of datagrams cut off by a short receive buffer
    framed,          \* the JSON bodies p's send_msg calls started to frame
    decoded,         \* the byte buffers p's recv_msg handed to the decoder
    typed,           \* the lines p's user has entered so far
    prompts,         \* how many times my_turn printed the menu
    partial,         \* short transfers p's socket has made so far
    foreign,         \* datagram bursts a foreign sender has emitted
    zero,            \* the transfer of p's socket that returned Ok(0), if any
    grain,           \* how much p's transfers moved so far: byte, whole, mixed
    todo             \* Xfer: messages still to be sent by the sender

vars == <<honest, phase, err, snd, rcv, ltask, rtask, my_action_option,
          oppo_action, opponent_name, outcome, first_done, chan, wire, sent, rcvd,
          dropped, framed, decoded, typed, prompts, partial, foreign, zero,
          grain, todo>>

Peers == {"A", "B"}

Other(p) == IF p = "A" THEN "B" ELSE "A"

Min(a, b) == IF a <= b THEN a ELSE b

Drop(s, n) == SubSeq(s, n + 1, Len(s))

StartsWith(b, pre) == Len(b) >= Len(pre) /\ SubSeq(b, 1, Len(pre)) = pre

EndsWith(b, suf) ==
    Len(b) >= Len(suf) /\ SubSeq(b, Len(b) - Len(suf) + 1, Len(b)) = suf

-----------------------------------------------------------------------------
(* message.rs: Message and Action, and their serde_json text.              *)

Actions == {"Rock", "Paper", "Scissor"}

Hello(n) == [tag |-> "Hello", name |-> n, action |-> "-"]

Leave(n) == [tag |-> "Leave", name |-> n, action |-> "-"]

Act(a) == [tag |-> "Act", name |-> <<>>, action |-> a]

\* Variant names as serde writes them: Rock, Paper, Scissor.
ActionText(a) ==
    CASE a = "Rock" -> <<82, 111, 99, 107>>
      [] a = "Paper" -> <<80, 97, 112, 101, 114>>
      [] a = "Scissor" -> <<83, 99, 105, 115, 115, 111, 114>>

\* {"Hello":{"name":"
HelloOpen == <<123, 34, 72, 101, 108, 108, 111, 34, 58, 123, 34, 110, 97, 109, 101, 34, 58, 34>>

\* {"Leave":{"name":"
LeaveOpen == <<123, 34, 76, 101, 97, 118, 101, 34, 58, 123, 34, 110, 97, 109, 101, 34, 58, 34>>

\* "}}
StructClose == <<34, 125, 125>>

\* {"Act":"
ActOpen == <<123, 34, 65, 99, 116, 34, 58, 34>>

\* "}
ActClose == <<34, 125>>

\* JSON string escaping of the two characters that need it among the
\* printable ASCII: the quote (34) and the backslash (92).
RECURSIVE EscapeStr(_)
EscapeStr(s) ==
    IF s = <<>> THEN <<>>
    ELSE (IF Head(s) \in {34, 92} THEN <<92, Head(s)>> ELSE <<Head(s)>>)
         \o EscapeStr(Tail(s))

\* serde_json::to_string(&msg): externally tagged, compact.
to_string(msg) ==
    CASE msg.tag = "Hello" -> HelloOpen \o EscapeStr(msg.name) \o StructClose
      [] msg.tag = "Leave" -> LeaveOpen \o EscapeStr(msg.name) \o StructClose
      [] msg.tag = "Act" -> ActOpen \o ActionText(msg.action) \o ActClose

\* The content of a JSON string literal, unescaped; not ok when it holds a
\* bare quote, a control character, or a backslash not followed by a quote
\* or a backslash.
RECURSIVE UnescapeStr(_)
UnescapeStr(s) ==
    IF s = <<>> THEN [ok |-> TRUE, val |-> <<>>]
    ELSE IF Head(s) = 34 \/ Head(s) < 32 THEN [ok |-> FALSE, val |-> <<>>]
    ELSE IF Head(s) = 92
         THEN IF Len(s) >= 2 /\ s[2] \in {34, 92}
              THEN LET r == UnescapeStr(Drop(s, 2))
                   IN  [ok |-> r.ok, val |-> <<s[2]>> \o r.val]
              ELSE [ok |-> FALSE, val |-> <<>>]
    ELSE LET r == UnescapeStr(Tail(s))
         IN  [ok |-> r.ok, val |-> <<Head(s)>> \o r.val]

\* String::from_utf8(json_bytes): the model's bytes are single-byte code
\* points or the lone byte 255, which is not valid UTF-8.
from_utf8(bytes) == \A i \in 1..Len(bytes) : bytes[i] < 128

NoMessage == [tag |-> "none", name |-> <<>>, action |-> "-"]

\* serde_json::from_str::<Message>(&json_text) on compact text.
from_str(b) ==
    IF StartsWith(b, HelloOpen) /\ EndsWith(b, StructClose)
       /\ Len(b) >= Len(HelloOpen) + Len(StructClose)
    THEN LET r == UnescapeStr(SubSeq(b, Len(HelloOpen) + 1, Len(b) - Len(StructClose)))
         IN  [ok |-> r.ok, msg |-> IF r.ok THEN Hello(r.val) ELSE NoMessage]
    ELSE IF StartsWith(b, LeaveOpen) /\ EndsWith(b, StructClose)
            /\ Len(b) >= Len(LeaveOpen) + Len(StructClose)
    THEN LET r == UnescapeStr(SubSeq(b, Len(LeaveOpen) + 1, Len(b) - Len(StructClose)))
         IN  [ok |-> r.ok, msg |-> IF r.ok THEN Leave(r.val) ELSE NoMessage]
    ELSE IF \E a \in Actions : b = ActOpen \o ActionText(a) \o ActClose
    THEN [ok |-> TRUE,
          msg |-> Act(CHOOSE a \in Actions : b = ActOpen \o ActionText(a) \o ActClose)]
    ELSE [ok |-> FALSE, msg |-> NoMessage]

-----------------------------------------------------------------------------
(* utils.rs: the length-prefixed transport.                                *)

\* The length written highest byte first.
to_be_bytes(n) ==
    <<(n \div 16777216) % 256, (n \div 65536) % 256, (n \div 256) % 256, n % 256>>

\* The length read highest byte first.
from_be_bytes(b) == b[4] + 256 * b[3] + 65536 * b[2] + 16777216 * b[1]

\* (len as u32).to_le_bytes(): the four low bytes of len, lowest first; the
\* cast drops what is above them.
to_le_bytes(n) ==
    <<n % 256, (n \div 256) % 256, (n \div 65536) % 256, (n \div 16777216) % 256>>

from_le_bytes(b) == b[1] + 256 * b[2] + 65536 * b[3] + 16777216 * b[4]

\* send_msg with its two send_exact calls in the other order.
send_msg_BodyFirst(msg) ==
    LET json_bytes == to_string(msg)
        len_bytes == to_le_bytes(Len(json_bytes))
    IN  [stage |-> "len", rest |-> json_bytes, json_bytes |-> len_bytes,
         msg |-> msg, err |-> "none"]

\* send_msg up to its first sock.send: the JSON text, its length, and
\* send_exact entered on the 4 length bytes.
send_msg(msg) ==
    LET json_bytes == to_string(msg)
        len_bytes == to_le_bytes(Len(json_bytes))
    IN  [stage |-> "len", rest |-> len_bytes, json_bytes |-> json_bytes,
         msg |-> msg, err |-> "none"]

SendIdle ==
    [stage |-> "idle", rest |-> <<>>, json_bytes |-> <<>>, msg |-> NoMessage,
     err |-> "none"]

\* One turn of send_exact's loop, sock.send having returned Ok(count).
send_exact(rest, count) ==
    IF count = 0
    THEN [err |-> "ConnectionAborted", rest |-> rest]
    ELSE [err |-> "none", rest |-> Drop(rest, count)]

\* send_msg resumed by sock.send returning Ok(count): the rest of the
\* current send_exact, then the next one, then Ok(()).
send_msg_step(s, count) ==
    LET r == send_exact(s.rest, count)
    IN  IF r.err # "none" THEN [s EXCEPT !.stage = "err", !.err = r.err]
        ELSE IF r.rest # <<>> THEN [s EXCEPT !.rest = r.rest]
        ELSE IF s.stage = "len" /\ s.json_bytes # <<>>
             THEN [s EXCEPT !.stage = "body", !.rest = s.json_bytes]
        ELSE [s EXCEPT !.stage = "ok", !.rest = <<>>]

\* UdpSocket::recv on a buffer of `room` bytes with `dgram` at the head of
\* the queue: the datagram is taken whole, what does not fit is discarded.
sock_recv(room, dgram) == Min(Len(dgram), room)

RecvIdle ==
    [stage |-> "idle", buf |-> <<>>, need |-> 0, msg |-> NoMessage, err |-> "none"]

\* recv_msg up to its first sock.recv: recv_exact entered on len_bytes.
recv_msg == [RecvIdle EXCEPT !.stage = "len", !.need = 4]

\* recv_exact without its `count == 0` test.
recv_exact_NoEofCheck(buf, need, dgram) ==
    [err |-> "none",
     buf |-> buf \o SubSeq(dgram, 1, sock_recv(need - Len(buf), dgram))]

\* recv_exact receiving into `buf` instead of `rest`: what arrives is put
\* at the start of the buffer.
recv_exact_IntoBuf(buf, need, dgram) ==
    LET count == sock_recv(need - Len(buf), dgram)
    IN  IF count = 0
        THEN [err |-> "UnexpectedEof", buf |-> buf]
        ELSE [err |-> "none", buf |-> SubSeq(dgram, 1, count) \o buf]

\* One turn of recv_exact's loop: `buf` is the filled part of a buffer of
\* `need` bytes, sock.recv returned Ok(count) with the bytes it stored.
recv_exact(buf, need, dgram) ==
    LET count == sock_recv(need - Len(buf), dgram)
    IN  IF count = 0
        THEN [err |-> "UnexpectedEof", buf |-> buf]
        ELSE [err |-> "none", buf |-> buf \o SubSeq(dgram, 1, count)]

\* The end of recv_msg: from_utf8(..).unwrap(), from_str(..).unwrap().
decode_body(r, json_bytes) ==
    IF ~from_utf8(json_bytes)
    THEN [r EXCEPT !.stage = "panic", !.buf = json_bytes, !.err = "FromUtf8Error"]
    ELSE LET d == from_str(json_bytes)
         IN  IF d.ok
             THEN [r EXCEPT !.stage = "ok", !.buf = json_bytes, !.msg = d.msg]
             ELSE [r EXCEPT !.stage = "panic", !.buf = json_bytes,
                            !.err = "serde_json::Error"]

\* recv_msg resumed by sock.recv taking `dgram`.
recv_msg_step(r, dgram) ==
    LET x == recv_exact(r.buf, r.need, dgram)
    IN  IF x.err # "none" THEN [r EXCEPT !.stage = "err", !.err = x.err]
        ELSE IF Len(x.buf) < r.need THEN [r EXCEPT !.buf = x.buf]
        ELSE IF r.stage = "len"
             THEN LET len == from_le_bytes(x.buf)
                  IN  IF len = 0 THEN decode_body(r, <<>>)
                      ELSE [r EXCEPT !.stage = "body", !.buf = <<>>, !.need = len]
        ELSE decode_body(r, x.buf)

-----------------------------------------------------------------------------
(* Bounds of the model.                                                    *)

\* Short transfers (1 byte accepted instead of the whole rest) the two
\* sockets make in one run.
MaxPartial == 1

\* Unrecognized lines a user enters before a recognized one.
MaxLines == 1

\* Datagram bursts a foreign sender emits.
MaxForeign == 2

-----------------------------------------------------------------------------
(* main.rs: the session.                                                   *)

\* Args.name, from the command line.
PlayerName(p) == IF p = "A" THEN <<65>> ELSE <<66>>

\* The lines a user may enter: the four commands and one unknown text.
Lines == {"r", "p", "s", "q", "x"}

\* my_turn's match with no arm that a line can equal (the line compared
\* with its end-of-line kept): every line is "not understood".
parse_line_NeverMatches(line) == "unknown"

\* my_turn's match with the arms of "p" and "s" exchanged.
parse_line_Swapped(line) ==
    CASE line = "p" -> "Scissor"
      [] line = "s" -> "Paper"
      [] line = "r" -> "Rock"
      [] line = "q" -> "quit"
      [] OTHER -> "unknown"

\* my_turn's match on the line: the move, "quit", or "unknown".
parse_line(line) ==
    CASE line = "p" -> "Paper"
      [] line = "s" -> "Scissor"
      [] line = "r" -> "Rock"
      [] line = "q" -> "quit"
      [] OTHER -> "unknown"

\* try_join! taken to be done as soon as my_turn is.
try_join_LocalOnly(lt, rt) ==
    IF lt = "Failed" \/ rt = "Failed" THEN "Err"
    ELSE IF lt = "Done" THEN "Ok"
    ELSE "Pending"

\* The two tasks raced instead of joined: done as soon as either is.
try_join_EitherDone(lt, rt) ==
    IF lt = "Failed" \/ rt = "Failed" THEN "Err"
    ELSE IF lt = "Done" \/ rt = "Done" THEN "Ok"
    ELSE "Pending"

\* futures::try_join! on the two tasks: the first Err, else both outputs
\* once both are done, else pending.
try_join(lt, rt) ==
    IF lt = "Failed" \/ rt = "Failed" THEN "Err"
    ELSE IF lt = "Done" /\ rt = "Done" THEN "Ok"
    ELSE "Pending"

\* main's match with one pair in the wrong arm: (Rock, Paper) among the wins
\* and (Paper, Rock) among the losses.
judge_RockBeatsPaper(my, op) ==
    IF my = op THEN "Fair"
    ELSE IF <<my, op>> \in {<<"Rock", "Scissor">>, <<"Rock", "Paper">>,
                            <<"Scissor", "Paper">>}
    THEN "Win"
    ELSE "Lose"

\* main's match on (my_action, oppo_action).
judge(my, op) ==
    IF my = op THEN "Fair"
    ELSE IF <<my, op>> \in {<<"Rock", "Scissor">>, <<"Paper", "Rock">>,
                            <<"Scissor", "Paper">>}
    THEN "Win"
    ELSE "Lose"

\* main going to the winner's match without the test of the Option.
report_JudgesQuit(my, op) == judge(my, op)

\* main after try_join: the quit report, or the winner.
report(my, op) == IF my = "None" THEN "Quit" ELSE judge(my, op)

\* A future that is dropped before it completed.
Abandon(t) ==
    IF t \in {"Done", "Failed", "Panicked", "NotStarted"} THEN t ELSE "Cancelled"

Settle(p, ph, e, lt, rt, my, op, out) ==
    /\ phase' = [phase EXCEPT ![p] = ph]
    /\ err' = [err EXCEPT ![p] = e]
    /\ ltask' = [ltask EXCEPT ![p] = lt]
    /\ rtask' = [rtask EXCEPT ![p] = rt]
    /\ my_action_option' = [my_action_option EXCEPT ![p] = my]
    /\ oppo_action' = [oppo_action EXCEPT ![p] = op]
    /\ outcome' = [outcome EXCEPT ![p] = out]
    /\ first_done' = [first_done EXCEPT ![p] =
                          IF @ # "none" THEN @
                          ELSE IF lt = "Done" /\ rt # "Done" THEN "local"
                          ELSE IF rt = "Done" /\ lt # "Done" THEN "remote"
                          ELSE @]

\* main returns Err(e): from the handshake by `?` / `return Err(err)`, from
\* turn collection by `try_join!(..)?`, which drops the sibling future.
MainFails(p, e, lt, rt) ==
    Settle(p, "Failed", e, Abandon(lt), Abandon(rt), my_action_option[p],
           oppo_action[p], outcome[p])

\* panic!(..) or unwrap() on an Err: the process unwinds.
MainPanics(p, e, lt, rt) ==
    Settle(p, "Panicked", e, Abandon(lt), Abandon(rt), my_action_option[p],
           oppo_action[p], outcome[p])

\* join! in place of try_join!: the first Err waits for the sibling.
Join_WaitsForBoth(p, lt, rt, my, op, e) ==
    IF lt \in {"Done", "Failed"} /\ rt \in {"Done", "Failed"}
    THEN IF lt = "Failed" \/ rt = "Failed"
         THEN MainFails(p, IF e = "none" THEN err[p] ELSE e, lt, rt)
         ELSE Settle(p, "Resolved", err[p], lt, rt, my, op, report(my, op))
    ELSE Settle(p, phase[p], IF e = "none" THEN err[p] ELSE e, lt, rt, my, op,
                outcome[p])

\* The output of opponents_turn not kept while my_turn is still pending.
Join_DropsEarlyOutput(p, lt, rt, my, op, e) ==
    LET j == try_join(lt, rt)
    IN  IF j = "Err" THEN MainFails(p, e, lt, rt)
        ELSE IF j = "Ok"
             THEN Settle(p, "Resolved", err[p], lt, rt, my, op, report(my, op))
        ELSE Settle(p, phase[p], err[p], lt, rt, my, "-", outcome[p])

\* main resumed in `try_join!(my_turn_future, opponents_turn_future)?` with
\* the tasks at lt and rt, and what follows it when both are done.
Join(p, lt, rt, my, op, e) ==
    LET j == try_join(lt, rt)
    IN  IF j = "Err" THEN MainFails(p, e, lt, rt)
        ELSE IF j = "Ok"
             THEN Settle(p, "Resolved", err[p], lt, rt, my, op, report(my, op))
        ELSE Settle(p, phase[p], err[p], lt, rt, my, op, outcome[p])

SessionUnchanged ==
    UNCHANGED <<phase, err, ltask, rtask, my_action_option, oppo_action, outcome,
                first_done>>

\* The record of how much each transfer on a socket moved of the `room`
\* bytes asked: always one byte, always all of them, or neither.
Grain(g, count, room) ==
    IF room = 1 \/ count = 0 THEN g
    ELSE LET k == IF count = 1 THEN "byte"
                  ELSE IF count = room THEN "whole" ELSE "mixed"
         IN  IF g \in {"none", k} THEN k ELSE "mixed"

Live(p) == honest[p] /\ phase[p] \in {"HandshakeSend", "HandshakeRecv", "TurnCollection"}

Init ==
    /\ honest \in {[p \in Peers |-> TRUE], [p \in Peers |-> p = "A"]}
    /\ phase = [p \in Peers |-> IF honest[p] THEN "HandshakeSend" ELSE "Foreign"]
    /\ err = [p \in Peers |-> "none"]
    /\ snd = [p \in Peers |-> SendIdle]
    /\ rcv = [p \in Peers |-> RecvIdle]
    /\ ltask = [p \in Peers |-> "NotStarted"]
    /\ rtask = [p \in Peers |-> "NotStarted"]
    /\ my_action_option = [p \in Peers |-> "-"]
    /\ oppo_action = [p \in Peers |-> "-"]
    /\ opponent_name = [p \in Peers |-> <<>>]
    /\ outcome = [p \in Peers |-> "none"]
    /\ first_done = [p \in Peers |-> "none"]
    /\ chan = [p \in Peers |-> <<>>]
    /\ wire = [p \in Peers |-> <<>>]
    /\ sent = [p \in Peers |-> <<>>]
    /\ rcvd = [p \in Peers |-> <<>>]
    /\ dropped = [p \in Peers |-> 0]
    /\ framed = [p \in Peers |-> <<>>]
    /\ decoded = [p \in Peers |-> <<>>]
    /\ typed = [p \in Peers |-> <<>>]
    /\ prompts = [p \in Peers |-> 0]
    /\ partial = [p \in Peers |-> 0]
    /\ foreign = [p \in Peers |-> 0]
    /\ grain = [p \in Peers |-> "none"]
    /\ zero = [p \in Peers |-> "none"]
    /\ todo = <<>>

\* main going to the wait for the opponent's Hello without sending its own.
SayHello_Skipped(p) ==
    /\ honest[p] /\ phase[p] = "HandshakeSend" /\ snd[p].stage = "idle"
    /\ Settle(p, "HandshakeRecv", err[p], ltask[p], rtask[p],
              my_action_option[p], oppo_action[p], outcome[p])
    /\ rcv' = [rcv EXCEPT ![p] = recv_msg]
    /\ UNCHANGED <<honest, snd, opponent_name, chan, wire, sent, rcvd, dropped,
                   framed, decoded, typed, prompts, partial, foreign, zero,
                   grain, todo>>

\* main, say_hello_future: send_msg(&sock, Hello { name }) is called.
SayHello(p) ==
    /\ honest[p] /\ phase[p] = "HandshakeSend" /\ snd[p].stage = "idle"
    /\ snd' = [snd EXCEPT ![p] = send_msg(Hello(PlayerName(p)))]
    /\ framed' = [framed EXCEPT ![p] = Append(@, snd'[p].json_bytes)]
    /\ SessionUnchanged
    /\ UNCHANGED <<honest, rcv, opponent_name, chan, wire, sent, rcvd, dropped,
                   decoded, typed, prompts, partial, foreign, zero, grain, todo>>

\* The counts sock.send may accept of `rest`: all of it, or one byte.
SendCounts(p) ==
    {Len(snd[p].rest)}
    \cup (IF partial[p] + partial[Other(p)] < MaxPartial /\ Len(snd[p].rest) > 1
          THEN {1} ELSE {})

\* main starting the two tasks right after its Hello is sent.
AfterSend_SkipRecv(p, s) ==
    IF phase[p] = "HandshakeSend"
    THEN /\ Settle(p, "TurnCollection", err[p], "AwaitingLine", "AwaitingMessage",
                   my_action_option[p], oppo_action[p], outcome[p])
         /\ rcv' = [rcv EXCEPT ![p] = recv_msg]
    ELSE /\ Join(p, "Done", rtask[p], s.msg.action, oppo_action[p], err[p])
         /\ UNCHANGED rcv

\* What follows send_msg returning Ok(()): in main the wait for the
\* opponent's Hello, in my_turn Ok(Some(action)).
AfterSend(p, s) ==
    IF phase[p] = "HandshakeSend"
    THEN /\ Settle(p, "HandshakeRecv", err[p], ltask[p], rtask[p],
                   my_action_option[p], oppo_action[p], outcome[p])
         /\ rcv' = [rcv EXCEPT ![p] = recv_msg]
    ELSE /\ Join(p, "Done", rtask[p], s.msg.action, oppo_action[p], err[p])
         /\ UNCHANGED rcv

\* sock.send(rest) returns Ok(count), count > 0: the bytes leave as one
\* datagram.
SockSend(p) ==
    /\ Live(p) /\ snd[p].stage \in {"len", "body"}
    /\ \E count \in SendCounts(p) :
         LET s == send_msg_step(snd[p], count)
             out == SubSeq(snd[p].rest, 1, count)
         IN  /\ chan' = [chan EXCEPT ![Other(p)] = Append(@, out)]
             /\ wire' = [wire EXCEPT ![p] = @ \o out]
             /\ partial' = [partial EXCEPT ![p] =
                                IF count < Len(snd[p].rest) THEN @ + 1 ELSE @]
             /\ grain' = [grain EXCEPT ![p] = Grain(@, count, Len(snd[p].rest))]
             /\ IF s.stage = "ok"
                THEN /\ snd' = [snd EXCEPT ![p] = SendIdle]
                     /\ sent' = [sent EXCEPT ![p] = Append(@, s.msg)]
                     /\ AfterSend(p, s)
                ELSE /\ snd' = [snd EXCEPT ![p] = s]
                     /\ UNCHANGED <<sent, rcv>>
                     /\ SessionUnchanged
    /\ UNCHANGED <<honest, opponent_name, rcvd, dropped, framed, decoded, typed,
                   prompts, foreign, zero, todo>>

\* How the task that was sending ends when its send_msg returns Err.
SendFails(p, e) ==
    IF phase[p] = "HandshakeSend"
    THEN MainFails(p, e, ltask[p], rtask[p])
    ELSE Join(p, "Failed", rtask[p], my_action_option[p], oppo_action[p], e)

\* sock.send(rest) returns Ok(0): send_exact takes the socket as closed.
\* (An Err(e) of sock.send or sock.recv leaves by the same `?` as the error
\* built here and is not modelled apart.)
SockSendZero(p) ==
    /\ Live(p) /\ snd[p].stage \in {"len", "body"}
    /\ zero' = [zero EXCEPT ![p] = "send"]
    /\ LET s == send_msg_step(snd[p], 0)
       IN  /\ snd' = [snd EXCEPT ![p] = s]
           /\ IF s.stage = "err"
              THEN SendFails(p, s.err)
              ELSE SessionUnchanged
    /\ UNCHANGED <<honest, rcv, opponent_name, chan, wire, sent, rcvd, dropped,
                   framed, decoded, typed, prompts, partial, foreign, grain, todo>>

\* opponents_turn reading the next message when one is not an Act.
AfterRecv_SkipsNonAct(p, msg) ==
    IF phase[p] = "HandshakeRecv"
    THEN IF msg.tag = "Hello"
         THEN /\ opponent_name' = [opponent_name EXCEPT ![p] = msg.name]
              /\ Settle(p, "TurnCollection", err[p], "AwaitingLine",
                        "AwaitingMessage", my_action_option[p], oppo_action[p],
                        outcome[p])
              /\ prompts' = [prompts EXCEPT ![p] = @ + 1]
              /\ rcv' = [rcv EXCEPT ![p] = recv_msg]
         ELSE /\ MainPanics(p, "unexpected message type", ltask[p], rtask[p])
              /\ rcv' = [rcv EXCEPT ![p] = RecvIdle]
              /\ UNCHANGED <<opponent_name, prompts>>
    ELSE IF msg.tag = "Act"
         THEN /\ Join(p, ltask[p], "Done", my_action_option[p], msg.action, err[p])
              /\ rcv' = [rcv EXCEPT ![p] = RecvIdle]
              /\ UNCHANGED <<opponent_name, prompts>>
         ELSE /\ SessionUnchanged
              /\ rcv' = [rcv EXCEPT ![p] = recv_msg]
              /\ UNCHANGED <<opponent_name, prompts>>

\* main taking whatever message comes first as the opponent's Hello.
AfterRecv_AnyIsHello(p, msg) ==
    IF phase[p] = "HandshakeRecv"
    THEN /\ opponent_name' = [opponent_name EXCEPT ![p] = msg.name]
         /\ Settle(p, "TurnCollection", err[p], "AwaitingLine",
                   "AwaitingMessage", my_action_option[p], oppo_action[p],
                   outcome[p])
         /\ prompts' = [prompts EXCEPT ![p] = @ + 1]
         /\ rcv' = [rcv EXCEPT ![p] = recv_msg]
    ELSE IF msg.tag = "Act"
         THEN /\ Join(p, ltask[p], "Done", my_action_option[p], msg.action, err[p])
              /\ rcv' = [rcv EXCEPT ![p] = RecvIdle]
              /\ UNCHANGED <<opponent_name, prompts>>
         ELSE /\ MainPanics(p, "Unexpected message type", ltask[p], "Panicked")
              /\ rcv' = [rcv EXCEPT ![p] = RecvIdle]
              /\ UNCHANGED <<opponent_name, prompts>>

\* What follows recv_msg returning Ok(msg): in main the match on Hello and
\* the first poll of try_join!, which runs my_turn up to next_line() and
\* opponents_turn up to its sock.recv; in opponents_turn the match on Act.
AfterRecv(p, msg) ==
    IF phase[p] = "HandshakeRecv"
    THEN IF msg.tag = "Hello"
         THEN /\ opponent_name' = [opponent_name EXCEPT ![p] = msg.name]
              /\ Settle(p, "TurnCollection", err[p], "AwaitingLine",
                        "AwaitingMessage", my_action_option[p], oppo_action[p],
                        outcome[p])
              /\ prompts' = [prompts EXCEPT ![p] = @ + 1]
              /\ rcv' = [rcv EXCEPT ![p] = recv_msg]
         ELSE /\ MainPanics(p, "unexpected message type", ltask[p], rtask[p])
              /\ rcv' = [rcv EXCEPT ![p] = RecvIdle]
              /\ UNCHANGED <<opponent_name, prompts>>
    ELSE IF msg.tag = "Act"
         THEN /\ Join(p, ltask[p], "Done", my_action_option[p], msg.action, err[p])
              /\ rcv' = [rcv EXCEPT ![p] = RecvIdle]
              /\ UNCHANGED <<opponent_name, prompts>>
         ELSE /\ MainPanics(p, "Unexpected message type", ltask[p], "Panicked")
              /\ rcv' = [rcv EXCEPT ![p] = RecvIdle]
              /\ UNCHANGED <<opponent_name, prompts>>

\* How the task that was receiving ends when its recv_msg returns Err.
RecvFails(p, e) ==
    IF phase[p] = "HandshakeRecv"
    THEN MainFails(p, e, ltask[p], rtask[p])
    ELSE Join(p, ltask[p], "Failed", my_action_option[p], oppo_action[p], e)

\* sock.recv(rest) returns Ok(count) with the datagram at the head of the
\* queue.
SockRecv(p) ==
    /\ Live(p) /\ rcv[p].stage \in {"len", "body"} /\ chan[p] # <<>>
    /\ LET dgram == Head(chan[p])
           r == recv_msg_step(rcv[p], dgram)
           room == rcv[p].need - Len(rcv[p].buf)
       IN  /\ chan' = [chan EXCEPT ![p] = Tail(@)]
           /\ dropped' = [dropped EXCEPT ![p] = @ + Len(dgram) - sock_recv(room, dgram)]
           /\ grain' = [grain EXCEPT ![p] = Grain(@, sock_recv(room, dgram), room)]
           /\ zero' = [zero EXCEPT ![p] = IF sock_recv(room, dgram) = 0 THEN "recv" ELSE @]
           /\ decoded' = [decoded EXCEPT ![p] =
                              IF r.stage \in {"ok", "panic"} THEN Append(@, r.buf) ELSE @]
           /\ rcvd' = [rcvd EXCEPT ![p] = IF r.stage = "ok" THEN Append(@, r.msg) ELSE @]
           /\ CASE r.stage = "ok" -> AfterRecv(p, r.msg)
                [] r.stage = "err" ->
                     /\ RecvFails(p, r.err)
                     /\ rcv' = [rcv EXCEPT ![p] = r]
                     /\ UNCHANGED <<opponent_name, prompts>>
                [] r.stage = "panic" ->
                     /\ MainPanics(p, r.err, ltask[p],
                                   IF phase[p] = "HandshakeRecv" THEN rtask[p]
                                   ELSE "Panicked")
                     /\ rcv' = [rcv EXCEPT ![p] = r]
                     /\ UNCHANGED <<opponent_name, prompts>>
                [] OTHER ->
                     /\ rcv' = [rcv EXCEPT ![p] = r]
                     /\ SessionUnchanged
                     /\ UNCHANGED <<opponent_name, prompts>>
    /\ UNCHANGED <<honest, snd, wire, sent, framed, typed, partial, foreign, todo>>

\* my_turn and opponents_turn raced in a loop: each rejected line starts
\* recv_msg anew, and what the old call had buffered is gone.
NextLine_RestartsRecv(p) ==
    /\ Live(p) /\ phase[p] = "TurnCollection" /\ ltask[p] = "AwaitingLine"
    /\ \E line \in Lines :
         LET cmd == parse_line(line)
         IN  /\ typed' = [typed EXCEPT ![p] = Append(@, line)]
             /\ CASE cmd \in Actions ->
                       /\ snd' = [snd EXCEPT ![p] = send_msg(Act(cmd))]
                       /\ framed' = [framed EXCEPT ![p] = Append(@, snd'[p].json_bytes)]
                       /\ Join(p, "Sending", rtask[p], my_action_option[p],
                               oppo_action[p], err[p])
                       /\ UNCHANGED <<prompts, rcv>>
                  [] cmd = "quit" ->
                       /\ Join(p, "Done", rtask[p], "None", oppo_action[p], err[p])
                       /\ UNCHANGED <<snd, framed, prompts, rcv>>
                  [] OTHER ->
                       /\ Len(typed[p]) < MaxLines
                       /\ prompts' = [prompts EXCEPT ![p] = @ + 1]
                       /\ rcv' = [rcv EXCEPT ![p] =
                                      IF rtask[p] = "AwaitingMessage" THEN recv_msg ELSE @]
                       /\ Join(p, "AwaitingLine", rtask[p], my_action_option[p],
                               oppo_action[p], err[p])
                       /\ UNCHANGED <<snd, framed>>
    /\ UNCHANGED <<honest, opponent_name, chan, wire, sent, rcvd, dropped,
                   decoded, partial, foreign, zero, grain, todo>>

\* my_turn telling the opponent of a quit: "q" sends Leave before Ok(None).
NextLine_QuitSendsLeave(p) ==
    /\ Live(p) /\ phase[p] = "TurnCollection" /\ ltask[p] = "AwaitingLine"
    /\ \E line \in Lines :
         LET cmd == parse_line(line)
         IN  /\ typed' = [typed EXCEPT ![p] = Append(@, line)]
             /\ CASE cmd \in Actions ->
                       /\ snd' = [snd EXCEPT ![p] = send_msg(Act(cmd))]
                       /\ framed' = [framed EXCEPT ![p] = Append(@, snd'[p].json_bytes)]
                       /\ Join(p, "Sending", rtask[p], my_action_option[p],
                               oppo_action[p], err[p])
                       /\ UNCHANGED prompts
                  [] cmd = "quit" ->
                       /\ snd' = [snd EXCEPT ![p] = send_msg(Leave(PlayerName(p)))]
                       /\ framed' = [framed EXCEPT ![p] = Append(@, snd'[p].json_bytes)]
                       /\ Join(p, "Sending", rtask[p], "None", oppo_action[p], err[p])
                       /\ UNCHANGED prompts
                  [] OTHER ->
                       /\ Len(typed[p]) < MaxLines
                       /\ prompts' = [prompts EXCEPT ![p] = @ + 1]
                       /\ Join(p, "AwaitingLine", rtask[p], my_action_option[p],
                               oppo_action[p], err[p])
                       /\ UNCHANGED <<snd, framed>>
    /\ UNCHANGED <<honest, rcv, opponent_name, chan, wire, sent, rcvd, dropped,
                   decoded, partial, foreign, zero, grain, todo>>

\* my_turn: lines.next_line() returns Ok(Some(line)).
NextLine(p) ==
    /\ Live(p) /\ phase[p] = "TurnCollection" /\ ltask[p] = "AwaitingLine"
    /\ \E line \in Lines :
         LET cmd == parse_line(line)
         IN  /\ typed' = [typed EXCEPT ![p] = Append(@, line)]
             /\ CASE cmd \in Actions ->
                       /\ snd' = [snd EXCEPT ![p] = send_msg(Act(cmd))]
                       /\ framed' = [framed EXCEPT ![p] = Append(@, snd'[p].json_bytes)]
                       /\ Join(p, "Sending", rtask[p], my_action_option[p],
                               oppo_action[p], err[p])
                       /\ UNCHANGED prompts
                  [] cmd = "quit" ->
                       /\ Join(p, "Done", rtask[p], "None", oppo_action[p], err[p])
                       /\ UNCHANGED <<snd, framed, prompts>>
                  [] OTHER ->
                       /\ Len(typed[p]) < MaxLines
                       /\ prompts' = [prompts EXCEPT ![p] = @ + 1]
                       /\ Join(p, "AwaitingLine", rtask[p], my_action_option[p],
                               oppo_action[p], err[p])
                       /\ UNCHANGED <<snd, framed>>
    /\ UNCHANGED <<honest, rcv, opponent_name, chan, wire, sent, rcvd, dropped,
                   decoded, partial, foreign, zero, grain, todo>>

\* my_turn: lines.next_line() returns Ok(None), the end of the input.
EndOfInput(p) ==
    /\ Live(p) /\ phase[p] = "TurnCollection" /\ ltask[p] = "AwaitingLine"
    /\ Join(p, "Done", rtask[p], "None", oppo_action[p], err[p])
    /\ UNCHANGED <<honest, snd, rcv, opponent_name, chan, wire, sent, rcvd,
                   dropped, framed, decoded, typed, prompts, partial, foreign, zero, grain, todo>>

\* my_turn: lines.next_line() returns Err(e): `result?` returns it.
StdinErr(p) ==
    /\ Live(p) /\ phase[p] = "TurnCollection" /\ ltask[p] = "AwaitingLine"
    /\ Join(p, "Failed", rtask[p], my_action_option[p], oppo_action[p], "IoError")
    /\ UNCHANGED <<honest, snd, rcv, opponent_name, chan, wire, sent, rcvd,
                   dropped, framed, decoded, typed, prompts, partial, foreign, zero, grain, todo>>

\* The bodies a sender that is not this program puts in its frames: three
\* messages, the text {} and one byte that is not UTF-8.
ForeignBodies ==
    {to_string(Hello(PlayerName("B"))), to_string(Leave(PlayerName("B"))),
     to_string(Act("Rock")), <<123, 125>>, <<255>>}

\* What it sends at once: a frame, a length prefix alone, an empty datagram.
ForeignBursts ==
    {<<to_le_bytes(Len(b)), b>> : b \in ForeignBodies}
    \cup {<<to_le_bytes(Len(to_string(Hello(PlayerName("B")))))>>, << <<>> >>}

\* The remote address is not running this program and sends a burst.
ForeignSend(q) ==
    /\ ~honest[q] /\ foreign[q] < MaxForeign
    /\ \E burst \in ForeignBursts :
         chan' = [chan EXCEPT ![Other(q)] = @ \o burst]
    /\ foreign' = [foreign EXCEPT ![q] = @ + 1]
    /\ SessionUnchanged
    /\ UNCHANGED <<honest, snd, rcv, opponent_name, wire, sent, rcvd, dropped,
                   framed, decoded, typed, prompts, partial, zero, grain, todo>>

Next ==
    \E p \in Peers :
        \/ SayHello(p)
        \/ SockSend(p)
        \/ SockSendZero(p)
        \/ SockRecv(p)
        \/ NextLine(p)
        \/ EndOfInput(p)
        \/ StdinErr(p)
        \/ ForeignSend(p)

Spec == Init /\ [][Next]_vars

-----------------------------------------------------------------------------
(* The transport alone: one sender calls send_msg for each message of a    *)
(* list, one receiver calls recv_msg again and again, and each sock.send   *)
(* accepts any count the bounds allow.                                     *)

\* The largest count below the whole rest a sock.send accepts.
MaxChunk == 2

\* Datagrams the receiving socket queues; sock.send is pending beyond it.
MaxInFlight == 2

XferMessages ==
    {Hello(<<65>>), Hello(<<34, 92>>), Leave(<<66>>), Act("Rock"), Act("Scissor")}

XferInputs ==
    {<<m>> : m \in XferMessages}
    \cup {<<Hello(<<65>>), m>> : m \in XferMessages}
    \cup {<<Act("Paper"), Act("Rock")>>}

XferInit ==
    /\ todo \in XferInputs
    /\ honest = [p \in Peers |-> TRUE]
    /\ phase = [p \in Peers |-> IF p = "A" THEN "XferSend" ELSE "XferRecv"]
    /\ err = [p \in Peers |-> "none"]
    /\ snd = [p \in Peers |-> SendIdle]
    /\ rcv = [p \in Peers |-> IF p = "B" THEN recv_msg ELSE RecvIdle]
    /\ ltask = [p \in Peers |-> "NotStarted"]
    /\ rtask = [p \in Peers |-> "NotStarted"]
    /\ my_action_option = [p \in Peers |-> "-"]
    /\ oppo_action = [p \in Peers |-> "-"]
    /\ opponent_name = [p \in Peers |-> <<>>]
    /\ outcome = [p \in Peers |-> "none"]
    /\ first_done = [p \in Peers |-> "none"]
    /\ chan = [p \in Peers |-> <<>>]
    /\ wire = [p \in Peers |-> <<>>]
    /\ sent = [p \in Peers |-> <<>>]
    /\ rcvd = [p \in Peers |-> <<>>]
    /\ dropped = [p \in Peers |-> 0]
    /\ framed = [p \in Peers |-> <<>>]
    /\ decoded = [p \in Peers |-> <<>>]
    /\ typed = [p \in Peers |-> <<>>]
    /\ prompts = [p \in Peers |-> 0]
    /\ partial = [p \in Peers |-> 0]
    /\ foreign = [p \in Peers |-> 0]
    /\ grain = [p \in Peers |-> "none"]
    /\ zero = [p \in Peers |-> "none"]

XferFrame ==
    /\ SessionUnchanged
    /\ UNCHANGED <<honest, opponent_name, typed, prompts, partial, foreign, zero>>

\* The sender calls send_msg on the next message.
XferCall ==
    /\ phase["A"] = "XferSend" /\ snd["A"].stage = "idle" /\ todo # <<>>
    /\ snd' = [snd EXCEPT !["A"] = send_msg(Head(todo))]
    /\ framed' = [framed EXCEPT !["A"] = Append(@, snd'["A"].json_bytes)]
    /\ todo' = Tail(todo)
    /\ XferFrame
    /\ UNCHANGED <<rcv, chan, wire, sent, rcvd, dropped, decoded, grain>>

\* The counts sock.send may accept of `rest`.
XferCounts(rest) == {c \in 1..MaxChunk : c <= Len(rest)} \cup {Len(rest)}

\* sock.send(rest) returns Ok(count), count > 0.
XferSend ==
    /\ phase["A"] = "XferSend" /\ snd["A"].stage \in {"len", "body"}
    /\ Len(chan["B"]) < MaxInFlight
    /\ \E count \in XferCounts(snd["A"].rest) :
         LET s == send_msg_step(snd["A"], count)
             out == SubSeq(snd["A"].rest, 1, count)
         IN  /\ chan' = [chan EXCEPT !["B"] = Append(@, out)]
             /\ wire' = [wire EXCEPT !["A"] = @ \o out]
             /\ grain' = [grain EXCEPT !["A"] = Grain(@, count, Len(snd["A"].rest))]
             /\ snd' = [snd EXCEPT !["A"] = IF s.stage = "ok" THEN SendIdle ELSE s]
             /\ sent' = [sent EXCEPT !["A"] =
                             IF s.stage = "ok" THEN Append(@, s.msg) ELSE @]
    /\ XferFrame
    /\ UNCHANGED <<rcv, rcvd, dropped, framed, decoded, todo>>

\* sock.recv(rest) returns Ok(count) with the datagram at the head of the
\* queue; after Ok(msg) the receiver calls recv_msg again.
XferRecv ==
    /\ phase["B"] = "XferRecv" /\ rcv["B"].stage \in {"len", "body"}
    /\ chan["B"] # <<>>
    /\ LET dgram == Head(chan["B"])
           r == recv_msg_step(rcv["B"], dgram)
           room == rcv["B"].need - Len(rcv["B"].buf)
       IN  /\ chan' = [chan EXCEPT !["B"] = Tail(@)]
           /\ dropped' = [dropped EXCEPT !["B"] = @ + Len(dgram) - sock_recv(room, dgram)]
           /\ grain' = [grain EXCEPT !["B"] = Grain(@, sock_recv(room, dgram), room)]
           /\ decoded' = [decoded EXCEPT !["B"] =
                              IF r.stage \in {"ok", "panic"} THEN Append(@, r.buf) ELSE @]
           /\ rcvd' = [rcvd EXCEPT !["B"] = IF r.stage = "ok" THEN Append(@, r.msg) ELSE @]
           /\ rcv' = [rcv EXCEPT !["B"] = IF r.stage = "ok" THEN recv_msg ELSE r]
    /\ XferFrame
    /\ UNCHANGED <<snd, wire, sent, framed, todo>>

XferNext == XferCall \/ XferSend \/ XferRecv

XferSpec == XferInit /\ [][XferNext]_vars

-----------------------------------------------------------------------------
(* The session of two instances when nothing fails: every transfer moves   *)
(* at least one byte, the input neither ends nor fails, and each user      *)
(* enters lines until one is a move.                                       *)

LiveInit == Init /\ \A p \in Peers : honest[p]

\* my_turn reads a line of a user who does not quit.
UserLine(p) ==
    /\ NextLine(p)
    /\ typed'[p][Len(typed'[p])] # "q"

\* my_turn reads a line that is one of the three moves.
MoveLine(p) ==
    /\ NextLine(p)
    /\ typed'[p][Len(typed'[p])] \in {"r", "p", "s"}

LiveNext ==
    \E p \in Peers :
        \/ SayHello(p)
        \/ SockSend(p)
        \/ SockRecv(p)
        \/ UserLine(p)

\* A step of peer p that the user's hesitation cannot put off for ever.
PeerStep(p) == SayHello(p) \/ SockSend(p) \/ SockRecv(p) \/ MoveLine(p)

\* The runtime polls main whenever its socket is ready, and each user ends
\* by entering a move.
LiveFair == \A p \in Peers : WF_vars(PeerStep(p))

LiveSpec == LiveInit /\ [][LiveNext]_vars /\ LiveFair

-----------------------------------------------------------------------------
(* Properties.                                                             *)

IsPrefix(s, w) == Len(s) <= Len(w) /\ SubSeq(w, 1, Len(s)) = s

\* The framed payload of a message: its length on 4 bytes, then its body.
Frame(msg) == to_le_bytes(Len(to_string(msg))) \o to_string(msg)

HonestPair == \A p \in Peers : honest[p]

\* p has started the two tasks of turn collection.
TurnStarted(p) == ltask[p] # "NotStarted" \/ rtask[p] # "NotStarted"

\* Some byte of an Act has left p's socket.
ActOnWire(p) == Len(wire[p]) > Len(Frame(Hello(PlayerName(p))))

\* C1: a peer starts turn collection (my_turn and opponents_turn) only with
\* exactly one Hello sent, its own, and exactly one message received, a
\* Hello; before that it has sent nothing but bytes of its Hello frame, and
\* it never sends a second Hello.
C1_OneHelloEachWayBeforeTurn ==
    \A p \in Peers : honest[p] =>
        /\ (ltask[p] = "NotStarted") <=> (rtask[p] = "NotStarted")
        /\ ~TurnStarted(p) =>
               /\ IsPrefix(wire[p], Frame(Hello(PlayerName(p))))
               /\ Len(framed[p]) <= 1
               /\ Len(sent[p]) <= 1
        /\ TurnStarted(p) =>
               /\ Len(sent[p]) >= 1 /\ sent[p][1] = Hello(PlayerName(p))
               /\ \A i \in 2..Len(sent[p]) : sent[p][i].tag = "Act"
               /\ Len(rcvd[p]) >= 1 /\ rcvd[p][1].tag = "Hello"
        /\ rtask[p] = "AwaitingMessage" => Len(rcvd[p]) = 1
        /\ ltask[p] = "AwaitingLine" => sent[p] = <<Hello(PlayerName(p))>>

\* C1 witness: a peer in turn collection whose my_turn is sending its Act.
C1_Witness ==
    \E p \in Peers :
        /\ phase[p] = "TurnCollection" /\ ltask[p] = "Sending"
        /\ rtask[p] = "AwaitingMessage" /\ ActOnWire(p)

\* C2 as stated: between two peers running the program, no byte of an Act is
\* on the wire while the other peer is still in HandshakeRecv.
C2_NoActWhileOtherInHandshake ==
    HonestPair =>
        \A p \in Peers : ActOnWire(p) => phase[Other(p)] # "HandshakeRecv"

\* C2 amended: a peer puts an Act on the wire only after it has received
\* the other's Hello, so after the other has sent its whole Hello; the other
\* may still be in HandshakeRecv, and the first message it receives is the
\* sender's Hello, never the Act.
C2_ActAfterOwnHelloReceived ==
    HonestPair =>
        \A p \in Peers :
            /\ ActOnWire(p) =>
                   /\ Len(rcvd[p]) >= 1 /\ rcvd[p][1] = Hello(PlayerName(Other(p)))
                   /\ opponent_name[p] = PlayerName(Other(p))
                   /\ Len(sent[Other(p)]) >= 1
                   /\ sent[Other(p)][1] = Hello(PlayerName(Other(p)))
                   /\ phase[Other(p)] # "HandshakeSend"
            /\ Len(rcvd[p]) >= 1 => rcvd[p][1] = Hello(PlayerName(Other(p)))

\* C2 witness: an Act is on the wire and the other peer is in HandshakeRecv.
C2_Witness ==
    /\ HonestPair
    /\ \E p \in Peers : ActOnWire(p) /\ phase[Other(p)] = "HandshakeRecv"

\* C3: main reports an outcome, the quit report included, only when both
\* my_turn and opponents_turn are done, and only then is it Resolved.
C3_ResolvedOnlyWhenBothDone ==
    \A p \in Peers :
        /\ phase[p] = "Resolved" =>
               /\ ltask[p] = "Done" /\ rtask[p] = "Done"
               /\ my_action_option[p] \in Actions \cup {"None"}
               /\ oppo_action[p] \in Actions
        /\ outcome[p] # "none" <=> phase[p] = "Resolved"

\* C3 witness: a peer that quit has its report, the opponent's Act received.
C3_Witness ==
    \E p \in Peers :
        /\ phase[p] = "Resolved" /\ outcome[p] = "Quit"
        /\ Len(rcvd[p]) = 2

\* C4, in a state: a failed task is the end of turn collection; main has
\* returned its error, and the sibling is done or was dropped.
C4_FailedTaskEndsTurn ==
    \A p \in Peers :
        (honest[p] /\ (ltask[p] = "Failed" \/ rtask[p] = "Failed")) =>
            /\ phase[p] = "Failed"
            /\ ~(ltask[p] = "Failed" /\ rtask[p] = "Failed")
            /\ ltask[p] \in {"Failed", "Done", "Cancelled"}
            /\ rtask[p] \in {"Failed", "Done", "Cancelled"}
            /\ ltask[p] = "Failed" => err[p] \in {"ConnectionAborted", "IoError"}
            /\ rtask[p] = "Failed" => err[p] = "UnexpectedEof"

\* C4, in a step: once main has returned an error nothing of the peer moves
\* and its socket accepts no further byte.
C4_FailedPeerIsSilent ==
    \A p \in Peers : phase[p] = "Failed" =>
        /\ phase'[p] = "Failed" /\ err'[p] = err[p]
        /\ ltask'[p] = ltask[p] /\ rtask'[p] = rtask[p]
        /\ snd'[p] = snd[p] /\ rcv'[p] = rcv[p]
        /\ wire'[p] = wire[p] /\ framed'[p] = framed[p]
        /\ Len(chan'[Other(p)]) <= Len(chan[Other(p)])

\* C4: turn collection is fail-fast: the first failure of either task is
\* the result, the sibling makes no further progress, and the peer sends no
\* byte from then on (an Act not yet sent is never sent).
C4_FailFast == [] C4_FailedTaskEndsTurn /\ [][C4_FailedPeerIsSilent]_vars

\* C4 witness: opponents_turn failed while my_turn was sending its Act,
\* which stays unsent.
C4_Witness ==
    \E p \in Peers :
        /\ rtask[p] = "Failed" /\ ltask[p] = "Cancelled"
        /\ snd[p].stage \in {"len", "body"}
        /\ ~IsPrefix(Frame(snd[p].msg), Drop(wire[p], Len(Frame(Hello(PlayerName(p))))))

\* C5: a well-formed message that is not an Act, received by opponents_turn,
\* ends the session by its panic whatever my_turn did: no opponent action,
\* no outcome, never Resolved.
C5_NonActInTurnIsFatal ==
    \A p \in Peers : honest[p] =>
        /\ (Len(rcvd[p]) >= 2 /\ rcvd[p][2].tag # "Act") =>
               /\ phase[p] = "Panicked" /\ err[p] = "Unexpected message type"
               /\ rtask[p] = "Panicked" /\ ltask[p] \in {"Done", "Cancelled"}
               /\ oppo_action[p] = "-" /\ outcome[p] = "none"
        /\ err[p] = "Unexpected message type" =>
               Len(rcvd[p]) = 2 /\ rcvd[p][2].tag \in {"Hello", "Leave"}

\* C5 witness: a second Hello arrived after my_turn had sent its Act.
C5_Witness ==
    \E p \in Peers :
        /\ phase[p] = "Panicked" /\ ltask[p] = "Done"
        /\ Len(rcvd[p]) = 2 /\ rcvd[p][2].tag = "Hello"
        /\ Len(sent[p]) = 2

\* C6: in HandshakeRecv main waits for one message; any variant but Hello
\* ends the session by a panic with no task started, and a Hello starts turn
\* collection with its name as the opponent's name.
C6_HandshakeRecvWantsHello ==
    \A p \in Peers : honest[p] =>
        /\ phase[p] = "HandshakeRecv" =>
               rcvd[p] = <<>> /\ rcv[p].stage \in {"len", "body"}
        /\ (Len(rcvd[p]) >= 1 /\ rcvd[p][1].tag # "Hello") =>
               /\ phase[p] = "Panicked" /\ err[p] = "unexpected message type"
               /\ ~TurnStarted(p) /\ Len(rcvd[p]) = 1
               /\ opponent_name[p] = <<>>
        /\ (Len(rcvd[p]) >= 1 /\ rcvd[p][1].tag = "Hello") =>
               /\ TurnStarted(p)
               /\ opponent_name[p] = rcvd[p][1].name

\* C6 witness: the first message a peer received is an Act.
C6_Witness ==
    \E p \in Peers :
        /\ rcvd[p] = <<Act("Rock")>> /\ phase[p] = "Panicked"
        /\ sent[p] = <<Hello(PlayerName(p))>>

RECURSIVE WellFramed(_, _)
WellFramed(w, msgs) ==
    IF msgs = <<>> THEN w = <<>>
    ELSE LET body == to_string(Head(msgs))
             N == Len(body)
         IN  /\ Len(w) >= 4 + N
             /\ \A i \in 1..4 : w[i] \in 0..255
             /\ w[1] + 256 * w[2] + 65536 * w[3] + 16777216 * w[4] = N
             /\ SubSeq(w, 5, 4 + N) = body
             /\ WellFramed(Drop(w, 4 + N), Tail(msgs))

\* What the send_msg in progress has still to send.
Unsent(s) == IF s.stage = "len" THEN s.rest \o s.json_bytes ELSE s.rest

\* C8: each successful send_msg puts 4 + N bytes on the wire, the length N
\* in little-endian order and then the N body bytes, whatever the counts
\* sock.send accepted; a send_msg in progress has sent a prefix of that, the
\* length being fixed from its first byte on.
C8_WireIsLengthThenBody ==
    /\ snd["A"].stage = "idle" => WellFramed(wire["A"], sent["A"])
    /\ snd["A"].stage \in {"len", "body"} =>
           /\ WellFramed(wire["A"] \o Unsent(snd["A"]), Append(sent["A"], snd["A"].msg))
           /\ snd["A"].json_bytes = to_string(snd["A"].msg)
    /\ snd["A"].stage \in {"idle", "len", "body"}

\* C8 witness: two messages sent with counts of several sizes.
C8_Witness ==
    /\ snd["A"].stage = "idle" /\ Len(sent["A"]) = 2 /\ todo = <<>>
    /\ grain["A"] = "mixed"

\* C9: whatever the counts of the transfers, one byte at a time included,
\* send_msg and recv_msg succeed and the receiver obtains the messages that
\* were sent, the same as with whole-buffer transfers.
C9_SameMessagesAtAnyGranularity ==
    /\ rcv["B"].stage \in {"len", "body"}
    /\ snd["A"].stage \in {"idle", "len", "body"}
    /\ IsPrefix(rcvd["B"], sent["A"])
    /\ (todo = <<>> /\ snd["A"].stage = "idle" /\ chan["B"] = <<>>) =>
           rcvd["B"] = sent["A"]

\* C9 witness: two messages sent and received one byte per call.
C9_Witness ==
    /\ todo = <<>> /\ snd["A"].stage = "idle" /\ chan["B"] = <<>>
    /\ grain["A"] = "byte" /\ grain["B"] = "byte"
    /\ Len(rcvd["B"]) = 2

RECURSIVE Concat(_)
Concat(seqs) == IF seqs = <<>> THEN <<>> ELSE Head(seqs) \o Concat(Tail(seqs))

RECURSIVE FrameBodies(_)
FrameBodies(bodies) ==
    IF bodies = <<>> THEN <<>>
    ELSE to_le_bytes(Len(Head(bodies))) \o Head(bodies) \o FrameBodies(Tail(bodies))

\* The bytes p's recv_msg calls have taken from the socket.
Consumed(p) ==
    FrameBodies(decoded[p])
    \o (IF rcv[p].stage = "len" THEN rcv[p].buf
        ELSE IF rcv[p].stage = "body" THEN to_le_bytes(rcv[p].need) \o rcv[p].buf
        ELSE <<>>)

\* C10: between two peers running the program, recv_msg reads 4 length
\* bytes and then exactly the body the sender framed; what it hands to the
\* decoder is that body, and every byte the sender's socket accepted is
\* either consumed into its own message or still queued, none dropped.
C10_ExactlyTheFramedBody ==
    HonestPair =>
        \A p \in Peers :
            /\ dropped[p] = 0
            /\ IsPrefix(decoded[p], framed[Other(p)])
            /\ Len(rcvd[p]) = Len(decoded[p])
            /\ \A i \in 1..Len(rcvd[p]) : to_string(rcvd[p][i]) = framed[Other(p)][i]
            /\ rcv[p].stage = "len" => rcv[p].need = 4
            /\ rcv[p].stage = "body" =>
                   /\ Len(decoded[p]) < Len(framed[Other(p)])
                   /\ rcv[p].need = Len(framed[Other(p)][Len(decoded[p]) + 1])
                   /\ IsPrefix(rcv[p].buf, framed[Other(p)][Len(decoded[p]) + 1])
            /\ rcv[p].stage \in {"idle", "len", "body"} =>
                   Consumed(p) \o Concat(chan[p]) = wire[Other(p)]

\* C10 witness: the Hello was decoded while the datagrams of the Act that
\* follows it were already queued behind it, and they still are.
C10_Witness ==
    /\ HonestPair
    /\ \E p \in Peers :
           /\ Len(decoded[p]) = 1 /\ phase[p] = "TurnCollection"
           /\ rcv[p].stage = "len" /\ rcv[p].buf = <<>>
           /\ Len(framed[Other(p)]) = 2
           /\ Concat(chan[p]) = FrameBodies(<<framed[Other(p)][2]>>)

\* The commands of the menu my_turn prints: r, p, s and q.
CommandOf(line) ==
    CASE line = "r" -> "Rock"
      [] line = "p" -> "Paper"
      [] line = "s" -> "Scissor"
      [] line = "q" -> "quit"
      [] OTHER -> "unknown"

\* What p's user entered last: a command, an unknown line, or nothing yet.
Entered(p) ==
    IF typed[p] = <<>> THEN "nothing" ELSE CommandOf(typed[p][Len(typed[p])])

\* C11: when the first command a user enters is the quit command, my_turn
\* returns None at once; as soon as opponents_turn has the opponent's
\* action, whichever it is and whether it came before or after the quit,
\* main reports the quit and returns Ok; no winner is ever evaluated.
C11_QuitReportsLossWithoutWinner ==
    \A p \in Peers : (honest[p] /\ Entered(p) = "quit") =>
        /\ my_action_option[p] = "None" /\ ltask[p] = "Done"
        /\ outcome[p] \in {"none", "Quit"}
        /\ rtask[p] = "Done" =>
               /\ phase[p] = "Resolved" /\ outcome[p] = "Quit"
               /\ err[p] = "none" /\ oppo_action[p] \in Actions
        /\ phase[p] = "Resolved" => rtask[p] = "Done"

\* C11 witness: the user quit after the opponent's Paper had been received,
\* and the quit is reported.
C11_Witness ==
    \E p \in Peers :
        /\ typed[p] = <<"q">> /\ oppo_action[p] = "Paper"
        /\ phase[p] = "Resolved" /\ outcome[p] = "Quit"

\* C12: my_turn ends at the first line that is a command, every line before
\* it being rejected with a new prompt; when that command is a move, one Act
\* with that move is framed and sent, and the Some(action) returned is the
\* action sent.
C12_FirstCommandDecides ==
    \A p \in Peers : honest[p] =>
        /\ \A i \in 1..(Len(typed[p]) - 1) : CommandOf(typed[p][i]) = "unknown"
        /\ ltask[p] = "AwaitingLine" =>
               /\ Entered(p) \in {"nothing", "unknown"}
               /\ prompts[p] = Len(typed[p]) + 1
               /\ my_action_option[p] = "-"
        /\ Entered(p) \in Actions =>
               /\ prompts[p] = Len(typed[p])
               /\ framed[p] = <<to_string(Hello(PlayerName(p))),
                                to_string(Act(Entered(p)))>>
               /\ ltask[p] \in {"Sending", "Done", "Failed", "Cancelled"}
               /\ my_action_option[p] \in {"-", Entered(p)}
               /\ ltask[p] = "Done" <=> my_action_option[p] = Entered(p)
               /\ ltask[p] = "Done" =>
                      /\ sent[p] = <<Hello(PlayerName(p)), Act(Entered(p))>>
                      /\ wire[p] = Frame(Hello(PlayerName(p))) \o Frame(Act(Entered(p)))
               /\ ltask[p] # "Done" => sent[p] = <<Hello(PlayerName(p))>>
        /\ my_action_option[p] \in Actions => Entered(p) = my_action_option[p]

\* C12 witness: "x" was rejected, "p" sent Paper and returned it.
C12_Witness ==
    \E p \in Peers :
        /\ typed[p] = <<"x", "p">> /\ my_action_option[p] = "Paper"
        /\ sent[p] = <<Hello(PlayerName(p)), Act("Paper")>>
        /\ prompts[p] = 2

\* Nothing of p's sending side moves in the step.
SendSideUnchanged(p) ==
    /\ wire'[p] = wire[p] /\ snd'[p] = snd[p] /\ framed'[p] = framed[p]
    /\ sent'[p] = sent[p] /\ chan' = chan

\* opponents_turn of p is where it was.
RemoteTaskUnchanged(p) ==
    rtask'[p] = rtask[p] /\ rcv'[p] = rcv[p] /\ oppo_action'[p] = oppo_action[p]

\* C13, in a step: a quit line or the end of the input ends my_turn with
\* None, an unknown line brings the prompt back; none of the three puts a
\* byte on the socket or touches opponents_turn.
C13_NoMoveStep ==
    \A p \in Peers : (honest[p] /\ ltask[p] = "AwaitingLine") =>
        /\ (typed'[p] # typed[p] /\ Entered(p)' = "unknown") =>
               /\ SendSideUnchanged(p) /\ RemoteTaskUnchanged(p)
               /\ ltask'[p] = "AwaitingLine" /\ phase'[p] = phase[p]
               /\ my_action_option'[p] = my_action_option[p]
               /\ prompts'[p] = prompts[p] + 1
        /\ (typed'[p] # typed[p] /\ Entered(p)' = "quit") =>
               /\ SendSideUnchanged(p) /\ RemoteTaskUnchanged(p)
               /\ ltask'[p] = "Done" /\ my_action_option'[p] = "None"
        /\ (typed'[p] = typed[p] /\ ltask'[p] = "Done") =>
               /\ SendSideUnchanged(p) /\ RemoteTaskUnchanged(p)
               /\ my_action_option'[p] = "None"

\* C13, in a state: a peer whose my_turn returned None has sent its Hello
\* and not a byte more.
C13_NoneSentNothing ==
    \A p \in Peers : (honest[p] /\ my_action_option[p] = "None") =>
        /\ ltask[p] = "Done" /\ snd[p].stage = "idle"
        /\ Entered(p) \in {"quit", "unknown", "nothing"}
        /\ sent[p] = <<Hello(PlayerName(p))>>
        /\ wire[p] = Frame(Hello(PlayerName(p)))

\* C13: the paths of my_turn that yield no move send nothing.
C13_NoMoveSendsNothing == [] C13_NoneSentNothing /\ [][C13_NoMoveStep]_vars

\* C13 witness: the input ended right after an unknown line while
\* opponents_turn was in the middle of a length prefix.
C13_Witness ==
    \E p \in Peers :
        /\ typed[p] = <<"x">> /\ my_action_option[p] = "None"
        /\ phase[p] = "TurnCollection" /\ rcv[p].stage = "len"
        /\ rcv[p].buf # <<>>

\* A body recv_msg filled that is not the text of a Message.
Undecodable(b) == ~from_utf8(b) \/ ~from_str(b).ok

\* C14: when the length prefix and the whole body are filled and the body
\* does not decode, recv_msg returns a decode error as an Err value, which
\* main returns in turn; the body is the last one read, no further message
\* is read in its place.
C14_DecodeErrorIsReturned ==
    \A p \in Peers : honest[p] =>
        \A i \in 1..Len(decoded[p]) : Undecodable(decoded[p][i]) =>
            /\ i = Len(decoded[p]) /\ Len(rcvd[p]) = i - 1
            /\ rcv[p].stage = "err" /\ rcv[p].err = "DecodeError"
            /\ phase[p] = "Failed" /\ err[p] = "DecodeError"

\* b waits for an Act of a peer whose user quit, its own my_turn done.
WaitsForQuitter(b) ==
    /\ HonestPair /\ Entered(Other(b)) = "quit"
    /\ phase[b] = "TurnCollection" /\ ltask[b] = "Done"

\* C15, in a state: a peer whose user quit has sent its Hello and nothing
\* else; its opponent never has an opponent action, never reports and is
\* never Resolved, whatever its own user entered; it ends only by an error
\* of its own input or of its own send, and otherwise sits in opponents_turn
\* with an empty receive buffer and an empty queue.
C15_OpponentNeverResolves ==
    HonestPair =>
        \A a \in Peers : Entered(a) = "quit" =>
            LET b == Other(a)
            IN  /\ sent[a] = <<Hello(PlayerName(a))>> /\ snd[a].stage = "idle"
                /\ wire[a] = Frame(Hello(PlayerName(a)))
                /\ phase[b] \in {"HandshakeRecv", "TurnCollection", "Failed"}
                /\ rtask[b] # "Done" /\ oppo_action[b] = "-"
                /\ outcome[b] = "none"
                /\ phase[b] = "Failed" =>
                       /\ ltask[b] = "Failed"
                       /\ err[b] \in {"IoError", "ConnectionAborted"}
                /\ (phase[b] = "TurnCollection" /\ ltask[b] \in {"Done", "AwaitingLine"}) =>
                       /\ rtask[b] = "AwaitingMessage" /\ rcv[b] = recv_msg
                       /\ chan[b] = <<>>

\* C15, in a step: once its own my_turn is done, nothing of that opponent
\* changes any more.
C15_OpponentStaysBlocked ==
    \A b \in Peers : WaitsForQuitter(b) =>
        /\ phase'[b] = phase[b] /\ ltask'[b] = ltask[b] /\ rtask'[b] = rtask[b]
        /\ rcv'[b] = rcv[b] /\ snd'[b] = snd[b] /\ chan'[b] = chan[b]
        /\ outcome'[b] = outcome[b] /\ err'[b] = err[b]

\* C15: after a quit no notification is sent and the opponent waits for an
\* Act for ever.
C15_QuitBlocksOpponent ==
    [] C15_OpponentNeverResolves /\ [][C15_OpponentStaysBlocked]_vars

\* C15 witness: A quit and, having B's Act, has reported and returned; B
\* sent its move and still waits.
C15_Witness ==
    /\ WaitsForQuitter("B") /\ my_action_option["B"] \in Actions
    /\ phase["A"] = "Resolved" /\ outcome["A"] = "Quit"
    /\ rtask["B"] = "AwaitingMessage"

\* A step of p's my_turn: a line read, or a transfer of its send_msg.
LocalStep(p) ==
    /\ phase[p] = "TurnCollection"
    /\ \/ typed'[p] # typed[p]
       \/ snd'[p] # snd[p]
       \/ ltask'[p] \notin {ltask[p], "Cancelled"}

\* A step of p's opponents_turn: a datagram taken by its recv_msg.
RemoteStep(p) ==
    /\ phase[p] = "TurnCollection"
    /\ \/ rcv'[p] # rcv[p]
       \/ chan'[p] # chan[p] /\ Len(chan'[p]) < Len(chan[p])
       \/ rtask'[p] \notin {rtask[p], "Cancelled"}

\* C16: in turn collection a step of my_turn that does not fail leaves
\* opponents_turn as it was, its receive buffer, its place in the length
\* and body loops and its queue included; a step of opponents_turn that
\* does not fail leaves my_turn as it was, its prompt, lines and send state
\* included; and a receive buffer only grows while its loop runs.
C16_TasksDoNotInterfere ==
    \A p \in Peers : honest[p] =>
        /\ (LocalStep(p) /\ ltask'[p] # "Failed") =>
               /\ rcv'[p] = rcv[p] /\ rtask'[p] = rtask[p]
               /\ chan'[p] = chan[p] /\ oppo_action'[p] = oppo_action[p]
               /\ rcvd'[p] = rcvd[p] /\ decoded'[p] = decoded[p]
               /\ dropped'[p] = dropped[p]
        /\ (RemoteStep(p) /\ rtask'[p] \notin {"Failed", "Panicked"}) =>
               /\ ltask'[p] = ltask[p] /\ snd'[p] = snd[p]
               /\ typed'[p] = typed[p] /\ prompts'[p] = prompts[p]
               /\ my_action_option'[p] = my_action_option[p]
               /\ wire'[p] = wire[p] /\ framed'[p] = framed[p]
               /\ sent'[p] = sent[p]
        /\ (phase[p] = "TurnCollection" /\ rcv[p].stage \in {"len", "body"}
            /\ rcv'[p].stage = rcv[p].stage) =>
               /\ IsPrefix(rcv[p].buf, rcv'[p].buf)
               /\ rcv'[p].need = rcv[p].need

\* C16, as a property of every step.
C16_NonInterference == [][C16_TasksDoNotInterfere]_vars

\* C16 witness: my_turn is between the length and the body of its Act while
\* opponents_turn holds one byte of a length prefix.
C16_Witness ==
    \E p \in Peers :
        /\ phase[p] = "TurnCollection" /\ snd[p].stage = "body"
        /\ typed[p] = <<"x", "r">>
        /\ rcv[p].stage = "len" /\ Len(rcv[p].buf) = 1

\* The result my_turn owes to what the user entered.
LocalResult(p) == IF Entered(p) \in Actions THEN Entered(p) ELSE "None"

\* C17: the output of each task is kept from the moment it returns, however
\* long the other takes: opponents_turn's action is the one of the Act
\* received, my_turn's result is the one the user's input decided, and main
\* resolves on that pair as soon as both are there, with the same report
\* whichever task was first.
C17_ResultIsThePairInAnyOrder ==
    \A p \in Peers : honest[p] =>
        /\ rtask[p] = "Done" =>
               /\ Len(rcvd[p]) = 2 /\ rcvd[p][2].tag = "Act"
               /\ oppo_action[p] = rcvd[p][2].action
        /\ ltask[p] = "Done" => my_action_option[p] = LocalResult(p)
        /\ (ltask[p] = "Done" /\ rtask[p] = "Done") <=> phase[p] = "Resolved"
        /\ phase[p] = "Resolved" =>
               /\ first_done[p] \in {"local", "remote"}
               /\ outcome[p] = report(LocalResult(p), rcvd[p][2].action)
        /\ (first_done[p] = "remote" /\ ltask[p] \in {"AwaitingLine", "Sending"}) =>
               /\ phase[p] = "TurnCollection" /\ rtask[p] = "Done"
               /\ outcome[p] = "none"

\* C17 witness: the opponent's Act was there before the user had entered a
\* command; the user then entered a rejected line and a move, and the
\* report is made on both.
C17_Witness ==
    \E p \in Peers :
        /\ first_done[p] = "remote" /\ phase[p] = "Resolved"
        /\ typed[p] = <<"x", "s">> /\ oppo_action[p] = "Rock"
        /\ outcome[p] = "Lose"

\* The frames of a sequence of messages, one after the other.
RECURSIVE Frames(_)
Frames(msgs) == IF msgs = <<>> THEN <<>> ELSE Frame(Head(msgs)) \o Frames(Tail(msgs))

\* What a whole session of p may put on the wire, the move being a.
SessionWire(p, a) == Frame(Hello(PlayerName(p))) \o Frame(Act(a))

\* C18: at every moment the bytes a peer has put on the wire are a prefix
\* of the frame of its Hello followed by the frame of one Act; it sends no
\* Leave, no second Hello and no second Act, and in each frame the four
\* length bytes are out before the first byte of the body.
C18_WireIsHelloThenOneAct ==
    \A p \in Peers : honest[p] =>
        /\ \E a \in Actions :
               /\ IsPrefix(wire[p], SessionWire(p, a))
               /\ IsPrefix(sent[p], <<Hello(PlayerName(p)), Act(a)>>)
               /\ IsPrefix(framed[p], <<to_string(Hello(PlayerName(p))),
                                        to_string(Act(a))>>)
        /\ snd[p].msg.tag # "Leave"
        /\ IsPrefix(Frames(sent[p]), wire[p])
        /\ snd[p].stage = "idle" => wire[p] = Frames(sent[p])
        /\ snd[p].stage = "len" =>
               /\ Len(wire[p]) - Len(Frames(sent[p])) < 4
               /\ wire[p] \o snd[p].rest \o snd[p].json_bytes
                      = Frames(Append(sent[p], snd[p].msg))
        /\ snd[p].stage = "body" =>
               /\ Len(wire[p]) - Len(Frames(sent[p])) >= 4
               /\ wire[p] \o snd[p].rest = Frames(Append(sent[p], snd[p].msg))

\* C18 witness: a peer in the middle of the body of its Act.
C18_Witness ==
    \E p \in Peers :
        /\ snd[p].stage = "body" /\ sent[p] = <<Hello(PlayerName(p))>>
        /\ Len(wire[p]) > Len(Frame(Hello(PlayerName(p)))) + 4

\* C19: two instances started against each other, over a queue that loses
\* and reorders nothing, whose users each end by entering a move, both
\* reach Resolved and stay there: neither the handshake nor turn collection
\* blocks.
C19_BothEventuallyResolved ==
    <>[](\A p \in Peers : phase[p] = "Resolved" /\ outcome[p] \in {"Win", "Lose", "Fair"})

\* C19 witness: both peers are Resolved, one after a rejected line and a
\* transfer that moved a single byte.
C19_Witness ==
    /\ \A p \in Peers : phase[p] = "Resolved"
    /\ \E p \in Peers : typed[p] = <<"x", "p">>
    /\ \E p \in Peers : partial[p] = 1

\* The table of the game: the pairs whose first action beats the second.
Beats == {<<"Rock", "Scissor">>, <<"Paper", "Rock">>, <<"Scissor", "Paper">>}

\* p has its report and its user entered a move.
ResolvedWithMove(p) == phase[p] = "Resolved" /\ my_action_option[p] \in Actions

\* C20: between two instances, a peer that is Resolved holds as the
\* opponent's action the move the opponent's user entered and sent; when
\* both are Resolved with a move each, each reports by the table, one a tie
\* iff the other does, one a win iff the other a loss.
C20_OutcomesAgree ==
    HonestPair =>
        /\ \A p \in Peers : phase[p] = "Resolved" =>
               /\ oppo_action[p] = Entered(Other(p))
               /\ sent[Other(p)] = <<Hello(PlayerName(Other(p))), Act(oppo_action[p])>>
        /\ (\A p \in Peers : ResolvedWithMove(p)) =>
               /\ \A p \in Peers :
                      /\ my_action_option[p] = Entered(p)
                      /\ oppo_action[p] = my_action_option[Other(p)]
                      /\ outcome[p] = "Fair" <=> my_action_option[p] = oppo_action[p]
                      /\ outcome[p] = "Win" <=>
                             <<my_action_option[p], oppo_action[p]>> \in Beats
                      /\ outcome[p] = "Lose" <=>
                             <<oppo_action[p], my_action_option[p]>> \in Beats
               /\ outcome["A"] = "Fair" <=> outcome["B"] = "Fair"
               /\ outcome["A"] = "Win" <=> outcome["B"] = "Lose"
               /\ outcome["A"] = "Lose" <=> outcome["B"] = "Win"

\* C20 witness: Paper against Rock, a win reported on one side and a loss
\* on the other.
C20_Witness ==
    /\ HonestPair /\ \A p \in Peers : ResolvedWithMove(p)
    /\ typed["A"] = <<"p">> /\ typed["B"] = <<"r">>
    /\ outcome["A"] = "Win" /\ outcome["B"] = "Lose"

====
